---- MODULE Spec2Model ----
(***************************************************************************)
(* Model of error_handler.py: the ErrorHandler singleton, its two          *)
(* ErrorCollection lists (validation, consistency), its                    *)
(* DatabaseErrorCollection, its per-stage RecordCounter map and its log.   *)
(*                                                                         *)
(* Python values are strings, naturals and None.  None is the reserved     *)
(* string below, which no input contains.  A dict is a function whose      *)
(* DOMAIN is its key set; a list is a sequence.  A returned text is the    *)
(* sequence of its lines, each line a record naming the format string that *)
(* produced it and carrying the formatted arguments; the text '' is <<>>.  *)
(***************************************************************************)
EXTENDS Naturals, Sequences, FiniteSets, TLC

VARIABLES
    instance,       \* ErrorHandler._instance: None or the id of the object
    constructed,    \* how many times ErrorHandler.__init__ has run
    validation,     \* _validation_error_collection
    consistency,    \* _consistency_error_collection
    db,             \* _db_error_collection
    r_counter,      \* _r_counter
    log,            \* the lines of the log file, oldest first
    hashOrder,      \* the iteration order of the interpreter's dicts
    out,            \* what the last call did: method, raised, returned text
    db_calls,       \* history: attach_db_error calls made, per text
    counter_calls,  \* history, per <<stage, counter>>: increment_* calls made;
                    \* for lab_db and center_db, 1 once its set_* was called
    pc,             \* per thread: the statement it executes next
    frame,          \* per thread: its local values
    heap,           \* the _r_counter of every ErrorHandler object constructed
                    \* and the RecordCounter objects they refer to
    overlapped      \* history: a thread ran while another was inside a call

\* The state of the threads of the interleaved runs (SpecThreads); the
\* other specifications run one caller and leave it as it starts.
threadVars == <<pc, frame, heap, overlapped>>

vars == <<instance, constructed, validation, consistency, db, r_counter, log,
          hashOrder, out, db_calls, counter_calls, threadVars>>

(***************************************************************************)
(* Bounds of the model.                                                    *)
(***************************************************************************)
MaxErrors == 3      \* records per ErrorCollection
MaxDbErrors == 3    \* attach_db_error calls
MaxCount == 2       \* calls of one counter method for one stage
MaxLog == 3         \* lines of the log before an info call
MaxAttach == 1      \* records in SpecAttach, which draws every record_data
MaxOps == 2         \* items ingested in Spec, which calls every method
MaxThreadCalls == 1 \* increment_inserted calls of each thread in SpecThreads

(***************************************************************************)
(* Values.                                                                 *)
(***************************************************************************)
None == "<None>"

\* The strings of the model in the order Python 2 compares str objects
\* (bytewise: digits < upper case < lower case).
StrOrder ==
    <<"490006", "Protocol", "Protocol is gone", "V29", "boom", "center_db",
      "clone", "clone_id", "deadlock", "inserted", "lab_db",
      "protein_target_id", "protocol", "protocol_id", "stage done", "updated",
      "uva_cloning_1">>

\* cmp of Python 2 on None and str: None is smaller than every string.
PyOrder == <<None>> \o StrOrder

Rank(x) == CHOOSE i \in 1..Len(PyOrder) : PyOrder[i] = x

\* '%s' % x
Str(x) == IF x = None THEN "None" ELSE x

CounterNames == {"updated", "inserted", "lab_db", "center_db"}
StageNames == {"clone", "protocol"}
Params == {"protocol_id", "clone_id"}
Notices == {None, "Protocol is gone"}
Signatures == {"boom", "deadlock"}
CountValues == {0, 231}
InfoTexts == {"stage done"}
Targets == {None, "490006"}
Stages == StageNames \cup {None}
Suffixes == {"V29"}

\* The record_data of the scenarios; a call passes any part of it.
FullData ==
    [protein_target_id |-> "490006", clone_id |-> "V29",
     protocol_id |-> "uva_cloning_1"]

DataDicts == {[k \in K |-> FullData[k]] : K \in SUBSET (DOMAIN FullData)}

\* The record_data of the first scenario, with and without its target.
TargetDicts ==
    {d \in DataDicts : "protocol_id" \in DOMAIN d /\ "clone_id" \notin DOMAIN d}

has_key(d, k) == k \in DOMAIN d

(***************************************************************************)
(* sorted(list, key) and itertools.groupby(list, key), the key being the    *)
(* name of an attribute of the elements (lambda o: o.target, o.stage).     *)
(***************************************************************************)
\* An insertion that puts x before the elements with an equal key: the sort
\* it gives is not stable.
InsertSorted_BeforeEqual(x, s, key) ==
    SelectSeq(s, LAMBDA y : Rank(y[key]) < Rank(x[key]))
    \o <<x>>
    \o SelectSeq(s, LAMBDA y : Rank(y[key]) >= Rank(x[key]))

RECURSIVE InsertSorted(_, _, _)
\* x goes after every element whose key is not greater: the sort is stable.
InsertSorted(x, s, key) ==
    IF s = <<>> THEN <<x>>
    ELSE IF Rank(x[key]) < Rank(Head(s)[key])
         THEN <<x>> \o s
         ELSE <<Head(s)>> \o InsertSorted(x, Tail(s), key)

RECURSIVE sorted(_, _)
sorted(s, key) ==
    IF s = <<>> THEN <<>>
    ELSE InsertSorted(s[Len(s)], sorted(SubSeq(s, 1, Len(s) - 1), key), key)

RECURSIVE groupby(_, _)
\* The runs of consecutive elements with equal keys, as <<key, run>> pairs.
groupby(s, key) ==
    IF s = <<>> THEN <<>>
    ELSE LET rest == groupby(Tail(s), key)
         IN  IF rest # <<>> /\ rest[1][1] = Head(s)[key]
             THEN <<<<Head(s)[key], <<Head(s)>> \o rest[1][2]>>>> \o Tail(rest)
             ELSE <<<<Head(s)[key], <<Head(s)>>>>>> \o rest

\* d[k] = v for each <<k, v>> of pairs in turn: a later pair replaces an
\* earlier one with the same key.
DictOf(pairs) ==
    [k \in {pairs[i][1] : i \in DOMAIN pairs} |->
        pairs[CHOOSE i \in DOMAIN pairs :
                /\ pairs[i][1] = k
                /\ \A j \in DOMAIN pairs : pairs[j][1] = k => j <= i][2]]

RECURSIVE Concat(_)
\* message += part, for each part in turn
Concat(parts) == IF parts = <<>> THEN <<>> ELSE Head(parts) \o Concat(Tail(parts))

\* The elements of the set S in the order of the sequence ord.
InOrder(S, ord) == SelectSeq(ord, LAMBDA x : x \in S)

\* sorted(d.keys())
SortedKeys(d) == InOrder(DOMAIN d, PyOrder)

\* d.keys(), and the order of d.items(): the interpreter's order of the keys.
DictKeys(d, order) == InOrder(DOMAIN d, order)

\* The orders the model lets a dict iterate in: the interpreter fixes one for
\* the whole run; nothing in the program makes it the sorted one.
AllKeys == <<None, "boom", "center_db", "clone", "deadlock", "inserted",
             "lab_db", "protocol", "updated">>

Reverse(s) == [i \in DOMAIN s |-> s[Len(s) + 1 - i]]

HashOrders == {AllKeys, Reverse(AllKeys)}

(***************************************************************************)
(* The error records.                                                      *)
(***************************************************************************)
ValidationError(target, stage, suffix, parameter, value, notice) ==
    [class |-> "ValidationError", target |-> target, stage |-> stage,
     suffix |-> suffix, parameter |-> parameter, value |-> value,
     notice |-> notice]

ConsistencyError(target, stage, suffix) ==
    [class |-> "ConsistencyError", target |-> target, stage |-> stage,
     suffix |-> suffix]

\* ValidationError.__str__ evaluates self.stage+"_", a TypeError on None.
StrRaises(o) == o.class = "ValidationError" /\ o.stage = None

\* str(o)
ItemStr(o) ==
    IF o.class = "ValidationError"
    THEN "Error: " \o Str(o.notice) \o ", Value of " \o Str(o.parameter)
         \o " = '" \o Str(o.value) \o "' for " \o (o.stage \o "_")
         \o "id = '" \o Str(o.suffix) \o "'\n"
    ELSE "Missing suffix: " \o Str(o.suffix) \o "\n"

(***************************************************************************)
(* ErrorCollection.                                                        *)
(***************************************************************************)
\* A grouping that leaves out the sort by target.
group_errors_t_s_unsorted(self) ==
    LET by_target == groupby(self, "target")
    IN  DictOf([i \in DOMAIN by_target |->
                  <<by_target[i][1],
                    DictOf(groupby(sorted(by_target[i][2], "stage"), "stage"))>>])

\* __group_errors_t_s: {target: {stage: [records]}}
group_errors_t_s(self) ==
    LET by_target == groupby(sorted(self, "target"), "target")
    IN  DictOf([i \in DOMAIN by_target |->
                  <<by_target[i][1],
                    DictOf(groupby(sorted(by_target[i][2], "stage"), "stage"))>>])

\* A grouping that leaves out the sort by stage.
group_errors_s_unsorted(self) == DictOf(groupby(self, "stage"))

\* __group_errors_s: {stage: [records]}
group_errors_s(self) == DictOf(groupby(sorted(self, "stage"), "stage"))

\* What a call did: the method, its arguments, and the text it returned, the
\* exception it raised, or None.
Returned(method, text) ==
    [method |-> method, args |-> <<>>, result |-> "text", text |-> text]
Raised(method) ==
    [method |-> method, args |-> <<>>, result |-> "raise", text |-> <<>>]
ReturnedNone(method, args) ==
    [method |-> method, args |-> args, result |-> "None", text |-> <<>>]

TargetLine(k) == [format |-> "Target: %s", target |-> Str(k)]
StageLine(stage, n) ==
    [format |-> "Stage: %s (%s error(s)).", stage |-> Str(stage), count |-> n]
ItemLine(o) == [format |-> "%s", item |-> ItemStr(o)]

\* ErrorCollection.get_error_msg
get_error_msg(self, order, method) ==
    LET error_dict == group_errors_t_s(self)
        keys == SortedKeys(error_dict)
        OfStage(k, stage) ==
            LET items == error_dict[k][stage]
            IN  <<StageLine(stage, Len(items))>>
                \o [i \in DOMAIN items |-> ItemLine(items[i])]
        OfTarget(k) ==
            LET stages == DictKeys(error_dict[k], order)
            IN  <<TargetLine(k)>>
                \o Concat([i \in DOMAIN stages |-> OfStage(k, stages[i])])
    IN  IF \E i \in DOMAIN self : StrRaises(self[i])
        THEN Raised(method)
        ELSE Returned(method, Concat([i \in DOMAIN keys |-> OfTarget(keys[i])]))

TotalLine(n) == [format |-> "%s error(s) occured during this run.", count |-> n]
CountLine(n, stage) == [format |-> "%s in %s", count |-> n, stage |-> Str(stage)]
TargetTotalLine(k, n) ==
    [format |-> "Target: %s (%s error(s))", target |-> Str(k), count |-> n]

RECURSIVE Sum(_)
\* total += n, for each n in turn
Sum(ns) == IF ns = <<>> THEN 0 ELSE Head(ns) + Sum(Tail(ns))

\* ErrorCollection.get_error_count_summary
get_error_count_summary(self, order, method) ==
    LET error_dict == group_errors_s(self)
        keys == DictKeys(error_dict, order)
        counts == [i \in DOMAIN keys |-> Len(error_dict[keys[i]])]
    IN  Returned(method,
                 <<TotalLine(Sum(counts))>>
                 \o [i \in DOMAIN keys |-> CountLine(counts[i], keys[i])])

\* get_error_count_msg with total = 0 before the loop over the targets
\* instead of inside it: a target's total includes the earlier targets'.
get_error_count_msg_NoReset(self, order, method) ==
    LET error_dict == group_errors_t_s(self)
        keys == SortedKeys(error_dict)
        StagesOf(k) == DictKeys(error_dict[k], order)
        Own(k) ==
            Sum([i \in DOMAIN StagesOf(k) |-> Len(error_dict[k][StagesOf(k)[i]])])
        Total(n) == Sum([i \in 1..n |-> Own(keys[i])])
        OfTarget(n) ==
            <<TargetTotalLine(keys[n], Total(n))>>
            \o [i \in DOMAIN StagesOf(keys[n]) |->
                  CountLine(Len(error_dict[keys[n]][StagesOf(keys[n])[i]]),
                            StagesOf(keys[n])[i])]
    IN  Returned(method,
                 <<TotalLine(Sum([i \in DOMAIN keys |-> Total(i)]))>>
                 \o Concat([i \in DOMAIN keys |-> OfTarget(i)]))

\* ErrorCollection.get_error_count_msg
get_error_count_msg(self, order, method) ==
    LET error_dict == group_errors_t_s(self)
        keys == SortedKeys(error_dict)
        StagesOf(k) == DictKeys(error_dict[k], order)
        Total(k) ==
            Sum([i \in DOMAIN StagesOf(k) |-> Len(error_dict[k][StagesOf(k)[i]])])
        OfTarget(k) ==
            <<TargetTotalLine(k, Total(k))>>
            \o [i \in DOMAIN StagesOf(k) |->
                  CountLine(Len(error_dict[k][StagesOf(k)[i]]), StagesOf(k)[i])]
    IN  Returned(method,
                 <<TotalLine(Sum([i \in DOMAIN keys |-> Total(keys[i])]))>>
                 \o Concat([i \in DOMAIN keys |-> OfTarget(keys[i])]))

(***************************************************************************)
(* RecordCounter and DatabaseErrorCollection.                              *)
(***************************************************************************)
EmptyDict == [k \in {} |-> 0]

\* Rebinding the dict to a new one that holds only the assigned key.
SetItem_Only(d, k, v) == [x \in {k} |-> v]

\* d[k] = v
SetItem(d, k, v) == [x \in DOMAIN d \cup {k} |-> IF x = k THEN v ELSE d[x]]

\* A counter that starts over at every call.
increment_Restart(self, counter_name) == SetItem(self, counter_name, 1)

\* RecordCounter.increment
increment(self, counter_name) ==
    IF has_key(self, counter_name)
    THEN SetItem(self, counter_name, self[counter_name] + 1)
    ELSE SetItem(self, counter_name, 1)

NoDbErrorsLine == [format |-> "There were no database errors during this run."]
DbHeaderLine == [format |-> "Following database errors occured during the run:"]
DbItemLine(v, k) == [format |-> "In %s recod(s):\n%s", count |-> v, text |-> Str(k)]
DbTotalLine(n) == [format |-> "%s error(s) occured during run.", count |-> n]

\* get_error_msg without the test "if self": the header is always written.
db_get_error_msg_NoEmptyCase(self, order, method) ==
    LET keys == DictKeys(self, order)
    IN  Returned(method,
                 <<DbHeaderLine>>
                 \o [i \in DOMAIN keys |-> DbItemLine(self[keys[i]], keys[i])])

\* DatabaseErrorCollection.get_error_msg
db_get_error_msg(self, order, method) ==
    LET keys == DictKeys(self, order)
    IN  IF DOMAIN self # {}
        THEN Returned(method,
                      <<DbHeaderLine>>
                      \o [i \in DOMAIN keys |-> DbItemLine(self[keys[i]], keys[i])])
        ELSE Returned(method, <<NoDbErrorsLine>>)

\* A count of the occurrences instead of the distinct texts.
db_get_error_count_msg_Occurrences(self, method) ==
    LET keys == InOrder(DOMAIN self, PyOrder)
    IN  Returned(method, <<DbTotalLine(Sum([i \in DOMAIN keys |-> self[keys[i]]]))>>)

\* DatabaseErrorCollection.get_error_count_msg
db_get_error_count_msg(self, method) ==
    Returned(method, <<DbTotalLine(Cardinality(DOMAIN self))>>)

(***************************************************************************)
(* ErrorHandler.                                                           *)
(***************************************************************************)
LogLine(text) == [level |-> "INFO", message |-> text]

\* A sink opened for writing, not appending: the line replaces the file.
logger_info_Rewrite(lines, handlers, text) ==
    [i \in 1..handlers |-> LogLine(text)]

\* self._logger.info(text): every file handler the logger has (one was added
\* by each __init__) appends the line to the log file.
logger_info(lines, handlers, text) ==
    lines \o [i \in 1..handlers |-> LogLine(text)]

\* The threads of the interleaved runs, and what a thread holds when it
\* starts: a, the handler ErrorHandlerSingleton returned to it; obj, the
\* object it constructed; bucket, the RecordCounter it fetched; value, the
\* count it read; calls, its finished increment_inserted calls.
Threads == {1, 2}

NewFrame == [a |-> None, obj |-> None, bucket |-> 0, value |-> 0, calls |-> 0]

Init ==
    /\ instance = None
    /\ constructed = 0
    /\ validation = <<>>
    /\ consistency = <<>>
    /\ db = EmptyDict
    /\ r_counter = EmptyDict
    /\ log = <<>>
    /\ hashOrder \in HashOrders
    /\ out = ReturnedNone("start", <<>>)
    /\ db_calls = [t \in Signatures |-> 0]
    /\ counter_calls = [c \in Stages \X CounterNames |-> 0]
    /\ pc = [t \in Threads |-> "singleton_test"]
    /\ frame = [t \in Threads |-> NewFrame]
    /\ heap = [counters |-> EmptyDict, buckets |-> <<>>]
    /\ overlapped = FALSE

\* A test that finds no instance even when there is one.
Falsy_Always(x) == TRUE

\* not ErrorHandler._instance: None is false, an ErrorHandler object is true.
Falsy(x) == x = None

\* ErrorHandlerSingleton(), with ErrorHandler.__init__ when it constructs.
ErrorHandlerSingleton ==
    /\ IF Falsy(instance)
       THEN /\ instance' = "ErrorHandler object " \o ToString(constructed + 1)
            /\ constructed' = constructed + 1
            /\ validation' = <<>>
            /\ db' = EmptyDict
            /\ consistency' = <<>>
            /\ r_counter' = EmptyDict
            /\ log' = logger_info(log, constructed + 1, "Logger initiated.")
       ELSE UNCHANGED <<instance, constructed, validation, db, consistency,
                        r_counter, log>>
    /\ out' = [method |-> "ErrorHandlerSingleton", args |-> <<>>,
               result |-> instance', text |-> <<>>]
    /\ UNCHANGED <<hashOrder, db_calls, counter_calls, threadVars>>

\* A derivation that takes 'Protocol' only when record_data names no target.
TargetOf_PreferExplicit(stage, data_dict) ==
    IF has_key(data_dict, "protein_target_id")
    THEN data_dict["protein_target_id"]
    ELSE IF stage = "protocol" THEN "Protocol" ELSE None

\* The target attach_validation_error gives the record.
TargetOf(stage, data_dict) ==
    LET target == IF has_key(data_dict, "protein_target_id")
                  THEN data_dict["protein_target_id"]
                  ELSE None
    IN  IF stage = "protocol" THEN "Protocol" ELSE target

\* A key built without the separator.
IdKey_NoSeparator(stage) == Str(stage) \o "id"

\* '%s_id' % (stage)
IdKey(stage) == Str(stage) \o "_id"

SuffixOf(stage, data_dict) ==
    IF has_key(data_dict, IdKey(stage)) THEN data_dict[IdKey(stage)] ELSE None

ValueOf(param, data_dict) ==
    IF has_key(data_dict, param) THEN data_dict[param] ELSE None

attach_validation_error(stage, param, data_dict, notice) ==
    /\ instance # None
    /\ Len(validation) < MaxErrors
    /\ validation' =
          Append(validation,
                 ValidationError(TargetOf(stage, data_dict), stage,
                                 SuffixOf(stage, data_dict), param,
                                 ValueOf(param, data_dict), notice))
    /\ out' = ReturnedNone("attach_validation_error",
                           <<stage, param, data_dict, notice>>)
    /\ UNCHANGED <<instance, constructed, consistency, db, r_counter, log,
                   hashOrder, db_calls, counter_calls, threadVars>>

attach_consistency_error(target, stage, id) ==
    /\ instance # None
    /\ Len(consistency) < MaxErrors
    /\ consistency' = Append(consistency, ConsistencyError(target, stage, id))
    /\ out' = ReturnedNone("attach_consistency_error", <<target, stage, id>>)
    /\ UNCHANGED <<instance, constructed, validation, db, r_counter, log,
                   hashOrder, db_calls, counter_calls, threadVars>>

attach_db_error(text) ==
    /\ instance # None
    /\ Sum([i \in 1..Len(PyOrder) |->
             IF PyOrder[i] \in Signatures THEN db_calls[PyOrder[i]] ELSE 0])
          < MaxDbErrors
    /\ log' = logger_info(log, constructed, text)
    /\ db' = increment(db, text)
    /\ db_calls' = [db_calls EXCEPT ![text] = @ + 1]
    /\ out' = ReturnedNone("attach_db_error", <<text>>)
    /\ UNCHANGED <<instance, constructed, validation, consistency, r_counter,
                   hashOrder, counter_calls, threadVars>>

\* An info that also records its text in the Frequency Collector, as
\* attach_db_error does.
info_AlsoCounts(text) ==
    /\ instance # None
    /\ Len(log) < MaxLog
    /\ log' = logger_info(log, constructed, text)
    /\ db' = increment(db, text)
    /\ out' = ReturnedNone("info", <<text>>)
    /\ UNCHANGED <<instance, constructed, validation, consistency,
                   r_counter, hashOrder, db_calls, counter_calls, threadVars>>

info(text) ==
    /\ instance # None
    /\ Len(log) < MaxLog
    /\ log' = logger_info(log, constructed, text)
    /\ out' = ReturnedNone("info", <<text>>)
    /\ UNCHANGED <<instance, constructed, validation, consistency, db,
                   r_counter, hashOrder, db_calls, counter_calls, threadVars>>

\* A bucket made anew at every call.
Bucket_AlwaysNew(counters, stage) == EmptyDict

\* if not self._r_counter.has_key(stage): self._r_counter[stage] = RecordCounter()
Bucket(counters, stage) ==
    IF has_key(counters, stage) THEN counters[stage] ELSE EmptyDict

increment_updated(stage) ==
    /\ instance # None
    /\ counter_calls[<<stage, "updated">>] < MaxCount
    /\ r_counter' =
          SetItem(r_counter, stage, increment(Bucket(r_counter, stage), "updated"))
    /\ counter_calls' = [counter_calls EXCEPT ![<<stage, "updated">>] = @ + 1]
    /\ out' = ReturnedNone("increment_updated", <<stage>>)
    /\ UNCHANGED <<instance, constructed, validation, consistency, db, log,
                   hashOrder, db_calls, threadVars>>

increment_inserted(stage) ==
    /\ instance # None
    /\ counter_calls[<<stage, "inserted">>] < MaxCount
    /\ r_counter' =
          SetItem(r_counter, stage, increment(Bucket(r_counter, stage), "inserted"))
    /\ counter_calls' = [counter_calls EXCEPT ![<<stage, "inserted">>] = @ + 1]
    /\ out' = ReturnedNone("increment_inserted", <<stage>>)
    /\ UNCHANGED <<instance, constructed, validation, consistency, db, log,
                   hashOrder, db_calls, threadVars>>

\* A set_lab_db_count that adds the value to the one held.
set_lab_db_count_Accumulate(stage, value) ==
    /\ instance # None
    /\ r_counter' =
          SetItem(r_counter, stage,
                  SetItem(Bucket(r_counter, stage), "lab_db",
                          IF has_key(Bucket(r_counter, stage), "lab_db")
                          THEN Bucket(r_counter, stage)["lab_db"] + value
                          ELSE value))
    /\ counter_calls' = [counter_calls EXCEPT ![<<stage, "lab_db">>] = 1]
    /\ out' = ReturnedNone("set_lab_db_count", <<stage, value>>)
    /\ UNCHANGED <<instance, constructed, validation, consistency, db, log,
                   hashOrder, db_calls, threadVars>>

set_lab_db_count(stage, value) ==
    /\ instance # None
    /\ r_counter' =
          SetItem(r_counter, stage, SetItem(Bucket(r_counter, stage), "lab_db", value))
    /\ counter_calls' = [counter_calls EXCEPT ![<<stage, "lab_db">>] = 1]
    /\ out' = ReturnedNone("set_lab_db_count", <<stage, value>>)
    /\ UNCHANGED <<instance, constructed, validation, consistency, db, log,
                   hashOrder, db_calls, threadVars>>

set_center_db_count(stage, value) ==
    /\ instance # None
    /\ r_counter' =
          SetItem(r_counter, stage,
                  SetItem(Bucket(r_counter, stage), "center_db", value))
    /\ counter_calls' = [counter_calls EXCEPT ![<<stage, "center_db">>] = 1]
    /\ out' = ReturnedNone("set_center_db_count", <<stage, value>>)
    /\ UNCHANGED <<instance, constructed, validation, consistency, db, log,
                   hashOrder, db_calls, threadVars>>

CounterStageLine(stage) == [format |-> "%s:", stage |-> Str(stage)]
CounterLine(k, v) == [format |-> "%s records: %s", name |-> Str(k), count |-> v]

\* ErrorHandler.get_count_values_msg
count_values_msg(counters, order) ==
    LET stages == DictKeys(counters, order)
        OfStage(stage) ==
            LET rc == counters[stage]
                names == DictKeys(rc, order)
            IN  <<CounterStageLine(stage)>>
                \o [i \in DOMAIN names |-> CounterLine(names[i], rc[names[i]])]
    IN  Concat([i \in DOMAIN stages |-> OfStage(stages[i])])

\* A report that sorts the stored list itself (list.sort in place of sorted).
Report_SortsInPlace(result) ==
    /\ instance # None
    /\ out' = result
    /\ validation' = sorted(validation, "target")
    /\ consistency' = sorted(consistency, "target")
    /\ UNCHANGED <<instance, constructed, db,
                   r_counter, log, hashOrder, db_calls, counter_calls,
                   threadVars>>

\* A reporting method: it returns (or raises) and changes nothing else.
Report(result) ==
    /\ instance # None
    /\ out' = result
    /\ UNCHANGED <<instance, constructed, validation, consistency, db,
                   r_counter, log, hashOrder, db_calls, counter_calls,
                   threadVars>>

get_validation_error_msg ==
    Report(get_error_msg(validation, hashOrder, "get_validation_error_msg"))

get_consistency_error_msg ==
    Report(get_error_msg(consistency, hashOrder, "get_consistency_error_msg"))

get_db_error_msg ==
    Report(db_get_error_msg(db, hashOrder, "get_db_error_msg"))

get_validation_errors_statistics_msg ==
    Report(get_error_count_msg(validation, hashOrder,
                               "get_validation_errors_statistics_msg"))

get_validation_errors_statistics_summary ==
    Report(get_error_count_summary(validation, hashOrder,
                                   "get_validation_errors_statistics_summary"))

get_consistency_errors_statistics_msg ==
    Report(get_error_count_msg(consistency, hashOrder,
                               "get_consistency_errors_statistics_msg"))

get_database_errors_statistics_msg ==
    Report(db_get_error_count_msg(db, "get_database_errors_statistics_msg"))

get_count_values_msg ==
    Report(Returned("get_count_values_msg", count_values_msg(r_counter, hashOrder)))

(***************************************************************************)
(* Specifications.  The handler's parts do not read one another, so each   *)
(* part is explored to its own bounds under callers that use that part:    *)
(* SpecValidation appends up to MaxErrors records that differ in target,   *)
(* stage and notice, SpecAttach up to MaxAttach records from every         *)
(* record_data and parameter.  Spec lets callers use every method, up to   *)
(* MaxOps ingested items.                                                  *)
(***************************************************************************)
ValidationReports ==
    \/ get_validation_error_msg
    \/ get_validation_errors_statistics_msg
    \/ get_validation_errors_statistics_summary

NextValidation ==
    \/ ErrorHandlerSingleton
    \/ \E stage \in StageNames, data_dict \in TargetDicts, notice \in Notices :
            attach_validation_error(stage, "protocol_id", data_dict, notice)
    \/ ValidationReports

SpecValidation == Init /\ [][NextValidation]_vars

NextAttach ==
    \/ ErrorHandlerSingleton
    \/ /\ Len(validation) < MaxAttach
       /\ \E stage \in StageNames, param \in Params, data_dict \in DataDicts,
             notice \in Notices :
               attach_validation_error(stage, param, data_dict, notice)
    \/ ValidationReports

SpecAttach == Init /\ [][NextAttach]_vars

NextConsistency ==
    \/ ErrorHandlerSingleton
    \/ \E target \in Targets, stage \in Stages, id \in Suffixes :
            attach_consistency_error(target, stage, id)
    \/ get_consistency_error_msg
    \/ get_consistency_errors_statistics_msg

SpecConsistency == Init /\ [][NextConsistency]_vars

NextDatabase ==
    \/ ErrorHandlerSingleton
    \/ \E text \in Signatures : attach_db_error(text)
    \/ \E text \in InfoTexts : info(text)
    \/ get_db_error_msg
    \/ get_database_errors_statistics_msg

SpecDatabase == Init /\ [][NextDatabase]_vars

NextCounters ==
    \/ ErrorHandlerSingleton
    \/ \E stage \in StageNames : increment_updated(stage)
    \/ \E stage \in StageNames : increment_inserted(stage)
    \/ \E stage \in StageNames, value \in CountValues :
            set_lab_db_count(stage, value)
    \/ \E stage \in StageNames, value \in CountValues :
            set_center_db_count(stage, value)
    \/ get_count_values_msg

SpecCounters == Init /\ [][NextCounters]_vars

\* The items the handler holds: records, database errors counted, counters
\* set or incremented, lines logged by info.
Ingested ==
    Len(validation) + Len(consistency) + Len(log) - constructed
    + Sum([i \in 1..Len(PyOrder) |->
             IF has_key(r_counter, PyOrder[i])
             THEN Sum([j \in 1..Len(PyOrder) |->
                         IF has_key(r_counter[PyOrder[i]], PyOrder[j])
                         THEN IF PyOrder[j] \in {"updated", "inserted"}
                              THEN r_counter[PyOrder[i]][PyOrder[j]] ELSE 1
                         ELSE 0])
             ELSE 0])

Next ==
    \/ ErrorHandlerSingleton
    \/ /\ Ingested < MaxOps
       /\ \/ \E stage \in StageNames, data_dict \in TargetDicts :
                attach_validation_error(stage, "protocol_id", data_dict, None)
          \/ \E target \in Targets, stage \in Stages, id \in Suffixes :
                attach_consistency_error(target, stage, id)
          \/ \E text \in Signatures : attach_db_error(text)
          \/ \E text \in InfoTexts : info(text)
          \/ \E stage \in StageNames : increment_updated(stage)
          \/ \E stage \in StageNames : increment_inserted(stage)
          \/ \E stage \in StageNames, value \in CountValues :
                set_lab_db_count(stage, value)
          \/ \E stage \in StageNames, value \in CountValues :
                set_center_db_count(stage, value)
    \/ ValidationReports
    \/ get_consistency_error_msg
    \/ get_consistency_errors_statistics_msg
    \/ get_db_error_msg
    \/ get_database_errors_statistics_msg
    \/ get_count_values_msg

Spec == Init /\ [][Next]_vars

\* Callers that may pass no stage: the stage of attach_validation_error
\* ranges over the stage names and None.
NextAbsentStage ==
    \/ ErrorHandlerSingleton
    \/ \E stage \in Stages, data_dict \in TargetDicts, notice \in Notices :
            attach_validation_error(stage, "protocol_id", data_dict, notice)
    \/ ValidationReports

SpecAbsentStage == Init /\ [][NextAbsentStage]_vars

(***************************************************************************)
(* Interleaved runs.  Each thread calls a = ErrorHandlerSingleton() and    *)
(* then a.increment_inserted(ThreadStage), MaxThreadCalls times; there is  *)
(* no lock in the code, so the interpreter may switch threads between any  *)
(* two of the statements below.  Every ErrorHandler object has its own     *)
(* _r_counter, kept in heap.counters under the object's id; a stage's      *)
(* entry refers to a RecordCounter of heap.buckets.                        *)
(***************************************************************************)
ThreadStage == "clone"

\* The positions at which a thread is between two calls.
BetweenCalls == {"singleton_test", "inserted_test", "done"}

\* Thread t takes a step and goes to the statement label.
Goto(t, label) ==
    /\ pc' = [pc EXCEPT ![t] = label]
    /\ overlapped' =
          (overlapped \/ \E u \in Threads \ {t} : pc[u] \notin BetweenCalls)

\* Where a thread goes after a call of increment_inserted returned.
AfterCall(calls) == IF calls < MaxThreadCalls THEN "inserted_test" ELSE "done"

sharedUnchanged ==
    UNCHANGED <<validation, consistency, db, r_counter, hashOrder, out,
                db_calls, counter_calls>>

\* if not ErrorHandler._instance:
singleton_test(t) ==
    /\ pc[t] = "singleton_test"
    /\ Goto(t, IF Falsy(instance) THEN "singleton_new" ELSE "singleton_return")
    /\ UNCHANGED <<instance, constructed, log, frame, heap>>
    /\ sharedUnchanged

\* ErrorHandler(): __init__ makes the object's collections and logs.
singleton_new(t) ==
    /\ pc[t] = "singleton_new"
    /\ LET obj == "ErrorHandler object " \o ToString(constructed + 1)
       IN  /\ frame' = [frame EXCEPT ![t].obj = obj]
           /\ heap' = [heap EXCEPT !.counters = SetItem(@, obj, EmptyDict)]
    /\ constructed' = constructed + 1
    /\ log' = logger_info(log, constructed + 1, "Logger initiated.")
    /\ Goto(t, "singleton_set")
    /\ UNCHANGED instance
    /\ sharedUnchanged

\* ErrorHandler._instance = <the new object>
singleton_set(t) ==
    /\ pc[t] = "singleton_set"
    /\ instance' = frame[t].obj
    /\ Goto(t, "singleton_return")
    /\ UNCHANGED <<constructed, log, frame, heap>>
    /\ sharedUnchanged

\* return ErrorHandler._instance
singleton_return(t) ==
    /\ pc[t] = "singleton_return"
    /\ frame' = [frame EXCEPT ![t].a = instance]
    /\ Goto(t, AfterCall(0))
    /\ UNCHANGED <<instance, constructed, log, heap>>
    /\ sharedUnchanged

\* A test that never finds the stage's bucket.
NoBucket_Always(counters, stage) == TRUE

\* not self._r_counter.has_key(stage)
NoBucket(counters, stage) == ~has_key(counters, stage)

\* increment_inserted: if not self._r_counter.has_key(stage):
inserted_test(t) ==
    /\ pc[t] = "inserted_test"
    /\ Goto(t, IF NoBucket(heap.counters[frame[t].a], ThreadStage)
               THEN "inserted_new" ELSE "inserted_get")
    /\ UNCHANGED <<instance, constructed, log, frame, heap>>
    /\ sharedUnchanged

\* self._r_counter[stage] = RecordCounter()
inserted_new(t) ==
    /\ pc[t] = "inserted_new"
    /\ heap' = [counters |->
                   [heap.counters EXCEPT ![frame[t].a] =
                       SetItem(@, ThreadStage, Len(heap.buckets) + 1)],
                buckets |-> Append(heap.buckets, EmptyDict)]
    /\ Goto(t, "inserted_get")
    /\ UNCHANGED <<instance, constructed, log, frame>>
    /\ sharedUnchanged

\* self._r_counter[stage], the object whose increment is called
inserted_get(t) ==
    /\ pc[t] = "inserted_get"
    /\ frame' = [frame EXCEPT ![t].bucket = heap.counters[frame[t].a][ThreadStage]]
    /\ Goto(t, "increment_test")
    /\ UNCHANGED <<instance, constructed, log, heap>>
    /\ sharedUnchanged

\* RecordCounter.increment: if self.has_key(counter_name):
increment_test(t) ==
    /\ pc[t] = "increment_test"
    /\ Goto(t, IF has_key(heap.buckets[frame[t].bucket], "inserted")
               THEN "increment_read" ELSE "increment_first")
    /\ UNCHANGED <<instance, constructed, log, frame, heap>>
    /\ sharedUnchanged

\* self[counter_name] += 1, the read of self[counter_name]
increment_read(t) ==
    /\ pc[t] = "increment_read"
    /\ frame' = [frame EXCEPT ![t].value = heap.buckets[frame[t].bucket]["inserted"]]
    /\ Goto(t, "increment_write")
    /\ UNCHANGED <<instance, constructed, log, heap>>
    /\ sharedUnchanged

\* self[counter_name] += 1, the store of the sum; the call returns
increment_write(t) ==
    /\ pc[t] = "increment_write"
    /\ heap' = [heap EXCEPT !.buckets[frame[t].bucket] =
                                SetItem(@, "inserted", frame[t].value + 1)]
    /\ frame' = [frame EXCEPT ![t].calls = @ + 1]
    /\ Goto(t, AfterCall(frame[t].calls + 1))
    /\ UNCHANGED <<instance, constructed, log>>
    /\ sharedUnchanged

\* self[counter_name] = 1; the call returns
increment_first(t) ==
    /\ pc[t] = "increment_first"
    /\ heap' = [heap EXCEPT !.buckets[frame[t].bucket] = SetItem(@, "inserted", 1)]
    /\ frame' = [frame EXCEPT ![t].calls = @ + 1]
    /\ Goto(t, AfterCall(frame[t].calls + 1))
    /\ UNCHANGED <<instance, constructed, log>>
    /\ sharedUnchanged

NextThreads ==
    \E t \in Threads :
        \/ singleton_test(t)
        \/ singleton_new(t)
        \/ singleton_set(t)
        \/ singleton_return(t)
        \/ inserted_test(t)
        \/ inserted_new(t)
        \/ inserted_get(t)
        \/ increment_test(t)
        \/ increment_read(t)
        \/ increment_write(t)
        \/ increment_first(t)

SpecThreads == Init /\ [][NextThreads]_vars

(***************************************************************************)
(* Reading a returned text back.                                           *)
(***************************************************************************)
LinesOf(text, format) == {i \in DOMAIN text : text[i].format = format}

\* The last line before line i that has the format, or 0.
LastBefore(text, i, format) ==
    IF \E j \in 1..(i - 1) : text[j].format = format
    THEN CHOOSE j \in 1..(i - 1) :
            /\ text[j].format = format
            /\ \A k \in (j + 1)..(i - 1) : text[k].format # format
    ELSE 0

HeaderOf(text, i) == LastBefore(text, i, "Target: %s")
StageLineOf(text, i) == LastBefore(text, i, "Stage: %s (%s error(s)).")

\* The item lines listed under the stage line j.
ItemsUnder(text, j) ==
    {i \in LinesOf(text, "%s") : StageLineOf(text, i) = j /\ HeaderOf(text, i) < j}

\* The stage lines for stage s under a header for target t.
StageLinesFor(text, t, s) ==
    {j \in LinesOf(text, "Stage: %s (%s error(s)).") :
        /\ text[j].stage = Str(s)
        /\ HeaderOf(text, j) > 0
        /\ text[HeaderOf(text, j)].target = Str(t)}

RecordsOf(coll, t, s) ==
    {i \in DOMAIN coll : coll[i].target = t /\ coll[i].stage = s}

PairsOf(coll) == {<<coll[i].target, coll[i].stage>> : i \in DOMAIN coll}

\* The text lists the records of coll, each once, under its target and stage.
Covers(text, coll) ==
    /\ \A i \in LinesOf(text, "%s") :
          StageLineOf(text, i) > HeaderOf(text, i) /\ HeaderOf(text, i) > 0
    /\ Cardinality(LinesOf(text, "%s")) = Len(coll)
    /\ Cardinality(LinesOf(text, "Stage: %s (%s error(s)).")) =
          Cardinality(PairsOf(coll))
    /\ Cardinality(LinesOf(text, "Target: %s")) =
          Cardinality({coll[i].target : i \in DOMAIN coll})
    /\ Len(text) = Len(coll) + Cardinality(PairsOf(coll))
                   + Cardinality({coll[i].target : i \in DOMAIN coll})
    /\ \A p \in PairsOf(coll) :
          /\ Cardinality(StageLinesFor(text, p[1], p[2])) = 1
          /\ \A j \in StageLinesFor(text, p[1], p[2]) :
                /\ text[j].count = Cardinality(RecordsOf(coll, p[1], p[2]))
                /\ Cardinality(ItemsUnder(text, j)) = text[j].count
                /\ \A r \in RecordsOf(coll, p[1], p[2]) :
                      Cardinality({i \in ItemsUnder(text, j) :
                                     text[i].item = ItemStr(coll[r])})
                      = Cardinality({q \in RecordsOf(coll, p[1], p[2]) :
                                       ItemStr(coll[q]) = ItemStr(coll[r])})

C2_SummaryTotals ==
    out.method = "get_validation_errors_statistics_summary" =>
        LET text == out.text
            counts == LinesOf(text, "%s in %s")
            stages == {validation[i].stage : i \in DOMAIN validation}
        IN  /\ out.result = "text"
            /\ Len(text) >= 1
            /\ text[1].format = "%s error(s) occured during this run."
            /\ counts = 2..Len(text)
            /\ text[1].count = Sum([i \in 1..(Len(text) - 1) |-> text[i + 1].count])
            /\ text[1].count = Len(validation)
            /\ \A s \in stages :
                  Cardinality({i \in counts : text[i].stage = Str(s)}) = 1
            /\ Cardinality(counts) = Cardinality(stages)

\* A summary of three records whose stages alternate.
C2_Witness ==
    /\ out.method = "get_validation_errors_statistics_summary"
    /\ Len(validation) = 3
    /\ validation[1].stage = validation[3].stage
    /\ validation[2].stage # validation[1].stage
    /\ Len(out.text) = 3

\* The record the last call appended.
LastRecord(coll) == coll[Len(coll)]

(***************************************************************************)
(* C3 as claimed: the record's target is record_data's protein_target_id   *)
(* whenever record_data has that key, for every stage; 'Protocol' only     *)
(* when the key is missing and the stage is 'protocol'; else absent.       *)
(***************************************************************************)
C3_ExplicitTargetPreferred ==
    out.method = "attach_validation_error" =>
        LET stage == out.args[1]
            data_dict == out.args[3]
        IN  LastRecord(validation).target =
                IF "protein_target_id" \in DOMAIN data_dict
                THEN data_dict["protein_target_id"]
                ELSE IF stage = "protocol" THEN "Protocol" ELSE None

(***************************************************************************)
(* C3 as amended: the record's target is 'Protocol' whenever the stage is  *)
(* 'protocol', whether or not record_data has protein_target_id; for every *)
(* other stage it is record_data's protein_target_id when that key is      *)
(* present and absent otherwise.                                           *)
(***************************************************************************)
C3_ProtocolStageOverrides ==
    out.method = "attach_validation_error" =>
        LET stage == out.args[1]
            data_dict == out.args[3]
        IN  LastRecord(validation).target =
                IF stage = "protocol" THEN "Protocol"
                ELSE IF "protein_target_id" \in DOMAIN data_dict
                     THEN data_dict["protein_target_id"]
                     ELSE None

\* A 'protocol' call whose record_data names a target.
C3_Witness ==
    /\ out.method = "attach_validation_error"
    /\ out.args[1] = "protocol"
    /\ "protein_target_id" \in DOMAIN out.args[3]
    /\ LastRecord(validation).target = "Protocol"

(***************************************************************************)
(* C4: whatever keys record_data lacks, attach_validation_error returns    *)
(* without raising and appends exactly one ValidationError, whose suffix   *)
(* is record_data['<stage>_id'] when that key is present and absent        *)
(* otherwise, and whose value is record_data[parameter] when that key is   *)
(* present and absent otherwise.                                           *)
(***************************************************************************)
C4_AttachAppendsOne ==
    [][out'.method = "attach_validation_error" =>
        LET stage == out'.args[1]
            param == out'.args[2]
            data_dict == out'.args[3]
            notice == out'.args[4]
            id_key == CHOOSE k \in {"clone_id", "protocol_id"} :
                        (stage = "clone") <=> (k = "clone_id")
        IN  /\ out'.result = "None"
            /\ Len(validation') = Len(validation) + 1
            /\ SubSeq(validation', 1, Len(validation)) = validation
            /\ LastRecord(validation').class = "ValidationError"
            /\ LastRecord(validation').stage = stage
            /\ LastRecord(validation').parameter = param
            /\ LastRecord(validation').notice = notice
            /\ LastRecord(validation').suffix =
                  IF id_key \in DOMAIN data_dict THEN data_dict[id_key] ELSE None
            /\ LastRecord(validation').value =
                  IF param \in DOMAIN data_dict THEN data_dict[param] ELSE None
    ]_vars

\* The first scenario: no clone_id in record_data, protocol_id the parameter.
C4_Witness ==
    /\ out.method = "attach_validation_error"
    /\ out.args = <<"clone", "protocol_id",
                    [protocol_id |-> "uva_cloning_1", protein_target_id |-> "490006"],
                    "Protocol is gone">>
    /\ LastRecord(validation) =
          ValidationError("490006", "clone", None, "protocol_id", "uva_cloning_1",
                          "Protocol is gone")
    /\ ItemStr(LastRecord(validation)) =
          "Error: Protocol is gone, Value of protocol_id = 'uva_cloning_1' for clone_id = 'None'\n"

(***************************************************************************)
(* C5: the database-error collection maps each text to the number of       *)
(* attach_db_error calls made with exactly that text, and has no entry for *)
(* a text never attached.                                                  *)
(***************************************************************************)
C5_FrequencyCountsCalls ==
    /\ DOMAIN db = {t \in Signatures : db_calls[t] > 0}
    /\ \A t \in DOMAIN db : db[t] = db_calls[t]

\* "boom" attached three times and nothing else.
C5_Witness ==
    /\ out.method = "attach_db_error"
    /\ DOMAIN db = {"boom"}
    /\ db["boom"] = 3

(***************************************************************************)
(* C6: the database-error count summary reports the number of distinct     *)
(* texts attached so far, not the number of attach_db_error calls.         *)
(***************************************************************************)
C6_CountsDistinctSignatures ==
    out.method = "get_database_errors_statistics_msg" =>
        /\ out.result = "text"
        /\ out.text =
              <<[format |-> "%s error(s) occured during run.",
                 count |-> Cardinality({t \in Signatures : db_calls[t] > 0})]>>

\* One text attached three times: the summary says 1.
C6_Witness ==
    /\ out.method = "get_database_errors_statistics_msg"
    /\ db_calls["boom"] = 3
    /\ out.text[1].count = 1

C8_SetOverwrites ==
    [][out'.method \in {"set_lab_db_count", "set_center_db_count"} =>
        LET stage == out'.args[1]
            value == out'.args[2]
            name == IF out'.method = "set_lab_db_count" THEN "lab_db"
                    ELSE "center_db"
            before == IF stage \in DOMAIN r_counter THEN r_counter[stage]
                      ELSE [k \in {} |-> 0]
        IN  /\ DOMAIN r_counter' = DOMAIN r_counter \cup {stage}
            /\ DOMAIN r_counter'[stage] = DOMAIN before \cup {name}
            /\ r_counter'[stage][name] = value
            /\ \A k \in DOMAIN before \ {name} : r_counter'[stage][k] = before[k]
            /\ \A other \in DOMAIN r_counter \ {stage} :
                  r_counter'[other] = r_counter[other]
    ]_vars

\* A count set to 0 in a bucket that holds the three other counters, beside
\* another stage's bucket.
C8_Witness ==
    /\ out.method = "set_lab_db_count"
    /\ out.args = <<"clone", 0>>
    /\ r_counter["clone"] =
          [lab_db |-> 0, center_db |-> 231, inserted |-> 2, updated |-> 1]
    /\ has_key(r_counter, "protocol")

(***************************************************************************)
(* C9: ErrorHandlerSingleton constructs the ErrorHandler at most once, at  *)
(* the first call and not before; every call returns that one instance;    *)
(* and a later call leaves the collections as they are, so what was        *)
(* ingested stays visible.                                                 *)
(***************************************************************************)
C9_SingletonConstructedOnce ==
    [][/\ (instance = None) <=> (constructed = 0)
       /\ constructed' <= 1
       /\ instance # None => instance' = instance
       /\ out'.method = "ErrorHandlerSingleton" =>
             /\ instance' # None
             /\ out'.result = instance'
             /\ constructed' = 1
             /\ instance # None =>
                   UNCHANGED <<validation, consistency, db, r_counter, log>>
    ]_vars

\* A call of ErrorHandlerSingleton after two items were ingested.
C9_Witness ==
    /\ out.method = "ErrorHandlerSingleton"
    /\ out.result = instance
    /\ constructed = 1
    /\ Ingested = 2
    /\ Len(validation) = 1

(***************************************************************************)
(* C10 as claimed: every reporting method called on an empty collection    *)
(* returns a text that is not empty: the full report of the validation     *)
(* errors and of the consistency errors when nothing was appended, and the *)
(* database-error report when nothing was attached.                        *)
(***************************************************************************)
C10_EmptyCollectionsReportNoErrors ==
    /\ (out.method = "get_validation_error_msg" /\ validation = <<>>)
          => (out.result = "text" /\ out.text # <<>>)
    /\ (out.method = "get_consistency_error_msg" /\ consistency = <<>>)
          => (out.result = "text" /\ out.text # <<>>)
    /\ (out.method = "get_db_error_msg" /\ DOMAIN db = {})
          => (out.result = "text" /\ out.text # <<>>)

ReportMethods ==
    {"get_validation_error_msg", "get_consistency_error_msg", "get_db_error_msg",
     "get_validation_errors_statistics_msg",
     "get_validation_errors_statistics_summary",
     "get_consistency_errors_statistics_msg",
     "get_database_errors_statistics_msg", "get_count_values_msg"}

(***************************************************************************)
(* C11 as claimed: whatever was ingested, records without target, stage,   *)
(* suffix, value or notice included, every reporting method returns a text *)
(* and never raises.                                                       *)
(***************************************************************************)
C11_ReportsNeverRaise ==
    out.method \in ReportMethods => out.result = "text"

\* What a call of the reporting method returns in the current state.
ResultOf(method) ==
    CASE method = "get_validation_error_msg" ->
            get_error_msg(validation, hashOrder, method)
      [] method = "get_consistency_error_msg" ->
            get_error_msg(consistency, hashOrder, method)
      [] method = "get_db_error_msg" -> db_get_error_msg(db, hashOrder, method)
      [] method = "get_validation_errors_statistics_msg" ->
            get_error_count_msg(validation, hashOrder, method)
      [] method = "get_validation_errors_statistics_summary" ->
            get_error_count_summary(validation, hashOrder, method)
      [] method = "get_consistency_errors_statistics_msg" ->
            get_error_count_msg(consistency, hashOrder, method)
      [] method = "get_database_errors_statistics_msg" ->
            db_get_error_count_msg(db, method)
      [] method = "get_count_values_msg" ->
            Returned(method, count_values_msg(r_counter, hashOrder))

(***************************************************************************)
(* C12: a reporting call leaves the validation list, the consistency list  *)
(* (contents and stored order), the Frequency Collector, the Stage         *)
(* Counters and the log as they were, and calling the same report again    *)
(* with no ingestion in between returns the same text.                     *)
(***************************************************************************)
C12_ReportsReadOnly ==
    [][\A method \in ReportMethods :
          /\ out'.method = method =>
                UNCHANGED <<validation, consistency, db, r_counter, log>>
          /\ out.method = method => out = ResultOf(method)]_vars

C12_Witness ==
    /\ out.method = "get_validation_error_msg"
    /\ Len(validation) = 2
    /\ validation # sorted(validation, "target")
    /\ Len(out.text) > 2

\* s is a prefix of t: t keeps every element of s at its position.
IsPrefix(s, t) ==
    /\ Len(s) <= Len(t)
    /\ \A i \in 1..Len(s) : t[i] = s[i]

(***************************************************************************)
(* C13: over any run the accumulated state only grows.  No step shortens   *)
(* the validation or the consistency list or removes or replaces a stored  *)
(* record; no signature leaves the Frequency Collector and no count in it  *)
(* decreases; no stage bucket leaves the Stage Counters, no counter leaves *)
(* a bucket, and 'inserted' and 'updated' never decrease.                  *)
(***************************************************************************)
C13_StateOnlyGrows ==
    [][/\ IsPrefix(validation, validation')
       /\ IsPrefix(consistency, consistency')
       /\ \A text \in DOMAIN db :
              text \in DOMAIN db' /\ db'[text] >= db[text]
       /\ \A stage \in DOMAIN r_counter :
              /\ stage \in DOMAIN r_counter'
              /\ \A name \in DOMAIN r_counter[stage] :
                     /\ name \in DOMAIN r_counter'[stage]
                     /\ name \in {"inserted", "updated"} =>
                            r_counter'[stage][name] >= r_counter[stage][name]
      ]_vars

\* A second signature and a second stage were recorded after the first ones.
C13_Witness ==
    \/ Cardinality(DOMAIN db) = 2
    \/ /\ Cardinality(DOMAIN r_counter) = 2
       /\ \E stage \in DOMAIN r_counter : "inserted" \in DOMAIN r_counter[stage]

\* The indices in S, ascending.
Ascending(S, n) == SelectSeq([i \in 1..n |-> i], LAMBDA i : i \in S)

\* The sum of the count fields of the lines of text whose index is in S.
CountsOf(text, S) ==
    LET idx == Ascending(S, Len(text))
    IN  Sum([k \in DOMAIN idx |-> text[idx[k]].count])

\* The per-stage lines listed under the per-target line j.
StageCountsUnder(text, j) ==
    {i \in LinesOf(text, "%s in %s") :
        LastBefore(text, i, "Target: %s (%s error(s))") = j}

KeyOf(t) == IF t = "None" THEN None ELSE t

\* The header lines of the text are in ascending order of their targets and
\* the stage lines under one header in ascending order of their stages.
Ordered(text, header, stageline) ==
    /\ \A i, j \in LinesOf(text, header) :
          i < j => Rank(KeyOf(text[i].target)) < Rank(KeyOf(text[j].target))
    /\ \A i, j \in LinesOf(text, stageline) :
          (i < j /\ LastBefore(text, i, header) = LastBefore(text, j, header))
              => Rank(KeyOf(text[i].stage)) < Rank(KeyOf(text[j].stage))

(***************************************************************************)
(* C15 as claimed: in the full report and in the count-by-target report    *)
(* the target headers appear in ascending target order, the absent target  *)
(* at a fixed position, and under each target the stage lines appear in    *)
(* ascending stage order.                                                  *)
(***************************************************************************)
C15_ReportsSorted ==
    /\ out.method = "get_consistency_error_msg" =>
          Ordered(out.text, "Target: %s", "Stage: %s (%s error(s)).")
    /\ out.method = "get_consistency_errors_statistics_msg" =>
          Ordered(out.text, "Target: %s (%s error(s))", "%s in %s")

\* The sequences a and b hold the same elements the same number of times.
SameBag(a, b) ==
    \A x \in {a[i] : i \in DOMAIN a} \cup {b[i] : i \in DOMAIN b} :
        Cardinality({i \in DOMAIN a : a[i] = x}) =
            Cardinality({i \in DOMAIN b : b[i] = x})

\* The list after ingesting the same records in the order p.
Permuted(coll, p) == [i \in DOMAIN coll |-> coll[p[i]]]

C17_EmptyReportsIffNothingIngested ==
    /\ out.method = "get_db_error_msg" =>
          (out.text = <<NoDbErrorsLine>> <=> \A text \in Signatures : db_calls[text] = 0)
    /\ out.method = "get_validation_errors_statistics_summary" =>
          ((out.text[1].count = 0 /\ Len(out.text) = 1) <=> validation = <<>>)

\* The database report of a handler that ingested other items, but no
\* database error.
C17_Witness ==
    /\ out.method = "get_db_error_msg"
    /\ out.text = <<NoDbErrorsLine>>
    /\ Ingested = MaxOps
    /\ validation # <<>>

CounterMethods ==
    {"increment_updated", "increment_inserted", "set_lab_db_count",
     "set_center_db_count"}

(***************************************************************************)
(* C18: an ingestion call changes only its own part of the handler.  info  *)
(* changes only the log; attach_validation_error only the validation list, *)
(* which gets one more record; attach_consistency_error only the           *)
(* consistency list, which gets exactly one record with the given target,  *)
(* stage and suffix; attach_db_error only the Frequency Collector and the  *)
(* log; a counter method called for a stage only that stage's bucket.      *)
(***************************************************************************)
C18_IngestionFrames ==
    [][/\ out'.method = "info" =>
             /\ UNCHANGED <<validation, consistency, db, r_counter>>
             /\ log' # log
       /\ out'.method = "attach_validation_error" =>
             /\ UNCHANGED <<consistency, db, r_counter, log>>
             /\ Len(validation') = Len(validation) + 1
             /\ IsPrefix(validation, validation')
       /\ out'.method = "attach_consistency_error" =>
             /\ UNCHANGED <<validation, db, r_counter, log>>
             /\ consistency' =
                   Append(consistency,
                          [class |-> "ConsistencyError",
                           target |-> out'.args[1], stage |-> out'.args[2],
                           suffix |-> out'.args[3]])
       /\ out'.method = "attach_db_error" =>
             /\ UNCHANGED <<validation, consistency, r_counter>>
             /\ db' # db
             /\ log' # log
       /\ out'.method \in CounterMethods =>
             /\ UNCHANGED <<validation, consistency, db, log>>
             /\ DOMAIN r_counter' = DOMAIN r_counter \cup {out'.args[1]}
             /\ \A stage \in DOMAIN r_counter \ {out'.args[1]} :
                    r_counter'[stage] = r_counter[stage]
      ]_vars

\* An info call on a handler that holds a record, a database error or a
\* counter.
C18_Witness ==
    /\ out.method = "info"
    /\ Ingested = MaxOps
    /\ validation # <<>> \/ DOMAIN db # {} \/ DOMAIN r_counter # {}

InitMarker == LogLine("Logger initiated.")

\* The lines of the log that carry the text of a database error.
DbLines(lines) == {i \in DOMAIN lines : lines[i].message \in Signatures}

\* The sum of the counts of the Frequency Collector.
DbTotal(self) ==
    LET keys == SortedKeys(self) IN Sum([i \in DOMAIN keys |-> self[keys[i]]])

(***************************************************************************)
(* C19: the log (the lines the handler has sent to its sink) is            *)
(* append-only and mirrors the calls.  Its first line is the               *)
(* initialization marker, written once, at construction; every info and    *)
(* attach_db_error call appends exactly one line with the text of the      *)
(* call, no other call appends; and the number of lines appended by        *)
(* attach_db_error is the sum of the counts of the Frequency Collector.    *)
(***************************************************************************)
C19_LogMirrorsCalls ==
    [][/\ IsPrefix(log, log')
       /\ instance' # None =>
             /\ log' # <<>> /\ log'[1] = InitMarker
             /\ Cardinality({i \in DOMAIN log' : log'[i] = InitMarker}) = 1
       /\ out'.method \in {"info", "attach_db_error"} =>
             log' = Append(log, LogLine(out'.args[1]))
       /\ out'.method \notin {"info", "attach_db_error"} =>
             log' = IF instance = None THEN <<InitMarker>> ELSE log
       /\ Cardinality(DbLines(log')) = DbTotal(db')
      ]_vars

\* The marker, then a database error and an info line in either order.
C19_Witness ==
    /\ Len(log) = 3
    /\ log[1] = InitMarker
    /\ DbLines(log) # {}
    /\ \E i \in DOMAIN log : log[i].message \in InfoTexts

AllDone == \A t \in Threads : pc[t] = "done"

\* The 'inserted' count of the stage in the handler object obj.
InsertedOf(obj) ==
    LET counters == heap.counters[obj]
    IN  IF has_key(counters, ThreadStage)
           /\ has_key(heap.buckets[counters[ThreadStage]], "inserted")
        THEN heap.buckets[counters[ThreadStage]]["inserted"]
        ELSE 0

\* One handler was constructed, every thread holds it, and its 'inserted'
\* count is the number of increment_inserted calls made.
Consistent ==
    /\ constructed = 1
    /\ \A t \in Threads : frame[t].a = instance
    /\ InsertedOf(instance) = Cardinality(Threads) * MaxThreadCalls

(***************************************************************************)
(* C20 as claimed: when two threads run with no mutex, however their       *)
(* calls interleave, at most one ErrorHandler is constructed, both threads *)
(* receive the same instance, and 'inserted' ends equal to the number of   *)
(* increment_inserted calls.                                               *)
(***************************************************************************)
C20_ConsistentWithoutMutex == AllDone => Consistent

(***************************************************************************)
(* C20, amended: the same holds when no call of one thread overlaps a call *)
(* of the other, each call running from its first statement to its return  *)
(* while the other thread is between calls (as under a single mutex).      *)
(***************************************************************************)
C20_ConsistentWhenCallsDoNotOverlap == (AllDone /\ ~overlapped) => Consistent

C20_Witness ==
    /\ AllDone
    /\ ~overlapped
    /\ InsertedOf(instance) = Cardinality(Threads) * MaxThreadCalls
    /\ \A t \in Threads : frame[t].calls = MaxThreadCalls

====
